---- MODULE Spec2Model ----
(***************************************************************************)
(* tgCli: the GSQL session of internal/server (RunGSQL, login,             *)
(* attemptLogin, startInteractiveSession, executeCommand).                 *)
(*                                                                         *)
(* Text is a sequence of tokens.  A token is one character ("[", "5",      *)
(* "\n", ...), the two-character run "__", a word without underscores or   *)
(* white space ("GSQL", "done"), or a JSON string literal with its quotes. *)
(* The marker strings of pkg/constants are spelled in these tokens, so     *)
(* substring search, splitting, trimming, the progress pattern and JSON    *)
(* decoding are computed on the text and not assumed.                      *)
(***************************************************************************)
EXTENDS Integers, Sequences, FiniteSets, TLC

\* Number of entries of the version table the range loop of login() visits.
NumVersions == 3

(***************************************************************************)
(* Text helpers (package strings).                                         *)
(***************************************************************************)
\* pkg/constants
GSQL_SEPARATOR == <<"__", "GSQL", "__">>
GSQL_COOKIES == <<"__", "GSQL", "__", "COOKIES", "__">>
\* the literal "__," of executeCommand
CookieDelim == <<"__", ",">>

\* unicode.IsSpace restricted to the white space the model's text holds
IsSpace(t) == t \in {" ", "\n", "\t", "\r"}

\* s has sub at offset i (1-based)
MatchAt(s, sub, i) ==
    /\ i >= 1
    /\ i + Len(sub) - 1 <= Len(s)
    /\ \A k \in 1..Len(sub) : s[i + k - 1] = sub[k]

\* strings.Contains
Contains(s, sub) == \E i \in 1..(Len(s) + 1) : MatchAt(s, sub, i)

\* strings.Index, 0 when absent
Index(s, sub) ==
    IF Contains(s, sub)
    THEN CHOOSE i \in 1..(Len(s) + 1) :
            MatchAt(s, sub, i) /\ \A j \in 1..(i - 1) : ~MatchAt(s, sub, j)
    ELSE 0

\* strings.HasSuffix
HasSuffix(s, suffix) ==
    Len(s) >= Len(suffix) /\ MatchAt(s, suffix, Len(s) - Len(suffix) + 1)

RECURSIVE TrimLeft(_)
TrimLeft(s) == IF s # <<>> /\ IsSpace(Head(s)) THEN TrimLeft(Tail(s)) ELSE s

RECURSIVE TrimRight(_)
TrimRight(s) ==
    IF s # <<>> /\ IsSpace(s[Len(s)]) THEN TrimRight(SubSeq(s, 1, Len(s) - 1)) ELSE s

\* strings.TrimSpace
TrimSpace(s) == TrimRight(TrimLeft(s))

\* strings.Split(s, sep) for a non-empty sep: every non-overlapping occurrence,
\* left to right
RECURSIVE Split(_, _)
Split(s, sep) ==
    LET i == Index(s, sep)
    IN  IF i = 0
        THEN <<s>>
        ELSE <<SubSeq(s, 1, i - 1)>> \o Split(SubSeq(s, i + Len(sep), Len(s)), sep)

(***************************************************************************)
(* encoding/json on the shapes the session uses: a flat object of string   *)
(* and boolean members.                                                    *)
(***************************************************************************)
Quote(str) == "\"" \o str \o "\""

\* the version table of server.go, in the order of the source literal
AllVersionCommits ==
    << <<"3.6.2", "31716aa98a0d4bd3bd7c5488dfc795a82dfee80d">>,
       <<"3.6.1", "b77b8fc6c2ceadd457571fc0a6ce1fb243e5f31c">>,
       <<"3.6.0", "b77b8fc6c2ceadd457571fc0a6ce1fb243e5f31c">>,
       <<"3.5.3", "7edb256d9750ab4451d27eef605e58e9adcedc7a">>,
       <<"3.5.0", "375e661f96298db4df018037949827e16ee8df60">>,
       <<"3.4.0", "421b0740e4a9f61d6eb0e03a4d2079de625a3ffe">>,
       <<"3.3.0", "90cc0512851acca2be10044878815bc414876f23">>,
       <<"3.2.2", "a31220261f440f61ebf3edfb1a84efba62939177">>,
       <<"3.2.1", "986e09c5d17d303659bed1342506a1c458462e30">>,
       <<"3.2.0", "f451d8a9a66c7ca0d8d4d9046f440f21097cdd03">>,
       <<"3.1.6", "71b39b25e198f690e28113e7f8874dab7b4559ec">>,
       <<"3.1.5", "f91c690f375ecd4d600eb126ca5a920a5c9ad0f4">>,
       <<"3.1.2", "3887cbd1d67b58ba6f88c50a069b679e20743984">>,
       <<"3.1.1", "375a182bc03b0c78b489e18a0d6af222916a48d2">>,
       <<"3.1.0", "e9d3c5d98e7229118309f6d4bbc9446bad7c4c3d">>,
       <<"3.0.5", "a9f902e5c552780589a15ba458adb48984359165">>,
       <<"3.0.0", "c90ec746a7e77ef5b108554be2133dfd1e1ab1b2">> >>

\* the entries the model negotiates over: the first NumVersions of the literal
versionCommits == SubSeq(AllVersionCommits, 1, NumVersions)

Versions == {versionCommits[i][1] : i \in 1..Len(versionCommits)}

\* versionCommits[version]
CommitOf(version) ==
    versionCommits[CHOOSE i \in 1..Len(versionCommits) : versionCommits[i][1] = version][2]

\* struct tags of models.GSQLCookie
CookieStringFields ==
    {"clientCommit", "ApplicationGatewayAffinity", "ApplicationGatewayAffinityCORS"}

CookieBoolFields == {"fromGsqlClient", "fromGraphStudio", "gShellTest", "fromGsqlServer"}

\* json tags of the anonymous loginResp struct of attemptLogin
LoginStringFields == {"message", "welcomeMessage"}

LoginBoolFields == {"isClientCompatible", "error"}

\* every string a JSON string literal of the model can spell
Strings ==
    CookieStringFields \cup CookieBoolFields \cup LoginStringFields \cup LoginBoolFields
    \cup {versionCommits[i][2] : i \in 1..Len(versionCommits)}
    \cup {"", "test123", "updated123", "srv456", "gw1", "gw2", "Welcome to GSQL",
          "Client not compatible", "Wrong password", "unknownKey"}

IsStringTok(t) == \E x \in Strings : Quote(x) = t

Unquote(t) == CHOOSE x \in Strings : Quote(x) = t

IsValueTok(t) == IsStringTok(t) \/ t \in {"true", "false", "null"}

\* the tokens of a text with the white space between them dropped
NoSpace(toks) == SelectSeq(toks, LAMBDA t : ~IsSpace(t))

\* the text is one JSON object { "k": v, ... } (or null)
IsObject(toks) ==
    LET m == NoSpace(toks)
        n == Len(m)
    IN  \/ m = <<"null">>
        \/ /\ n >= 2
           /\ m[1] = "{"
           /\ m[n] = "}"
           /\ \/ n = 2
              \/ /\ (n - 2) % 4 = 3
                 /\ \A i \in 0..((n - 3) \div 4) :
                       /\ IsStringTok(m[4 * i + 2])
                       /\ m[4 * i + 3] = ":"
                       /\ IsValueTok(m[4 * i + 4])
                       /\ (4 * i + 5 < n => m[4 * i + 5] = ",")

\* the members of an object, in order, as <<key, value token>>
Members(toks) ==
    LET m == NoSpace(toks)
        n == Len(m)
    IN  IF n <= 2
        THEN <<>>
        ELSE [i \in 1..((n - 1) \div 4) |-> <<Unquote(m[4 * i - 2]), m[4 * i]>>]

\* a member the destination struct cannot hold (UnmarshalTypeError)
WrongType(kv, strFields, boolFields) ==
    \/ kv[1] \in strFields /\ ~IsStringTok(kv[2]) /\ kv[2] # "null"
    \/ kv[1] \in boolFields /\ kv[2] \notin {"true", "false", "null"}

\* one member stored into the struct; unknown keys and null are skipped
Assign(val, kv, strFields, boolFields) ==
    IF kv[1] \in strFields /\ IsStringTok(kv[2])
    THEN [val EXCEPT ![kv[1]] = Unquote(kv[2])]
    ELSE IF kv[1] \in boolFields /\ kv[2] \in {"true", "false"}
         THEN [val EXCEPT ![kv[1]] = (kv[2] = "true")]
         ELSE val

RECURSIVE AssignAll(_, _, _, _, _)
AssignAll(val, ms, i, strFields, boolFields) ==
    IF i > Len(ms)
    THEN val
    ELSE AssignAll(Assign(val, ms[i], strFields, boolFields), ms, i + 1,
                   strFields, boolFields)

\* json.Unmarshal(toks, &val) with val the zero value: err and the struct
Unmarshal(toks, zero, strFields, boolFields) ==
    IF ~IsObject(toks)
    THEN [err |-> <<"invalid character">>, val |-> zero]
    ELSE LET ms == Members(toks)
         IN  IF \E i \in 1..Len(ms) : WrongType(ms[i], strFields, boolFields)
             THEN [err |-> <<"cannot unmarshal">>,
                   val |-> AssignAll(zero, ms, 1, strFields, boolFields)]
             ELSE [err |-> <<>>, val |-> AssignAll(zero, ms, 1, strFields, boolFields)]

\* the zero value of models.GSQLCookie
ZeroCookie ==
    [clientCommit |-> "", fromGsqlClient |-> FALSE, fromGraphStudio |-> FALSE,
     gShellTest |-> FALSE, fromGsqlServer |-> FALSE,
     ApplicationGatewayAffinity |-> "", ApplicationGatewayAffinityCORS |-> ""]

ZeroLoginResp ==
    [isClientCompatible |-> FALSE, error |-> FALSE, message |-> "", welcomeMessage |-> ""]

UnmarshalCookie(toks) == Unmarshal(toks, ZeroCookie, CookieStringFields, CookieBoolFields)

UnmarshalLoginResp(toks) ==
    Unmarshal(toks, ZeroLoginResp, LoginStringFields, LoginBoolFields)

BoolTok(b) == IF b THEN "true" ELSE "false"

\* json.Marshal of a GSQLCookie whose affinity tags lack omitempty
MarshalCookieNoOmitEmpty(c) ==
    <<"{", Quote("clientCommit"), ":", Quote(c.clientCommit), ",",
      Quote("fromGsqlClient"), ":", BoolTok(c.fromGsqlClient), ",",
      Quote("fromGraphStudio"), ":", BoolTok(c.fromGraphStudio), ",",
      Quote("gShellTest"), ":", BoolTok(c.gShellTest), ",",
      Quote("fromGsqlServer"), ":", BoolTok(c.fromGsqlServer), ",",
      Quote("ApplicationGatewayAffinity"), ":", Quote(c.ApplicationGatewayAffinity), ",",
      Quote("ApplicationGatewayAffinityCORS"), ":",
      Quote(c.ApplicationGatewayAffinityCORS), "}">>

\* json.Marshal(cookie): fields in struct order, the omitempty ones only when set
MarshalCookie(c) ==
    <<"{", Quote("clientCommit"), ":", Quote(c.clientCommit), ",",
      Quote("fromGsqlClient"), ":", BoolTok(c.fromGsqlClient), ",",
      Quote("fromGraphStudio"), ":", BoolTok(c.fromGraphStudio), ",",
      Quote("gShellTest"), ":", BoolTok(c.gShellTest), ",",
      Quote("fromGsqlServer"), ":", BoolTok(c.fromGsqlServer)>>
    \o (IF c.ApplicationGatewayAffinity # ""
        THEN <<",", Quote("ApplicationGatewayAffinity"), ":",
               Quote(c.ApplicationGatewayAffinity)>>
        ELSE <<>>)
    \o (IF c.ApplicationGatewayAffinityCORS # ""
        THEN <<",", Quote("ApplicationGatewayAffinityCORS"), ":",
               Quote(c.ApplicationGatewayAffinityCORS)>>
        ELSE <<>>)
    \o <<"}">>

(***************************************************************************)
(* Errors: nil is the empty sequence, an error is <<message>>.             *)
(***************************************************************************)
Nil == <<>>

Errorf(msg) == <<msg>>

(***************************************************************************)
(* The progress pattern of executeCommand,                                 *)
(*   \[.*?\]\s*([0-9]\d*|0)+%.*\(([1-9]\d*|0)\/([1-9]\d*|0)\)              *)
(* matched anywhere in the text.  Each set holds the offsets the match can *)
(* have reached after one more piece of the pattern.                       *)
(***************************************************************************)
IsDigit(t) == t \in {"0", "1", "2", "3", "4", "5", "6", "7", "8", "9"}

progressRegex(s) ==
    LET n == Len(s)
        \* . matches anything but a newline
        Dots(p, q) == \A k \in p..(q - 1) : s[k] # "\n"
        Lit(P, c) == {p + 1 : p \in {q \in P : q <= n /\ s[q] = c}}
        \* ([1-9]\d*|0)
        Num(P) ==
            {q \in 2..(n + 1) :
                \E p \in P :
                    /\ p < q
                    /\ \/ q = p + 1 /\ s[p] = "0"
                       \/ /\ IsDigit(s[p])
                          /\ s[p] # "0"
                          /\ \A k \in (p + 1)..(q - 1) : IsDigit(s[k])}
        open == Lit(1..n, "[")
        close == {j + 1 : j \in {j \in 1..n :
                                    s[j] = "]" /\ \E p \in open : p <= j /\ Dots(p, j)}}
        spaces == {q \in 1..(n + 1) :
                      \E p \in close : p <= q /\ \A k \in p..(q - 1) : IsSpace(s[k])}
        \* ([0-9]\d*|0)+ is one or more digits
        percentNum == {q \in 2..(n + 1) :
                          \E p \in spaces : p < q /\ \A k \in p..(q - 1) : IsDigit(s[k])}
        percent == Lit(percentNum, "%")
        rest == {q \in 1..(n + 1) : \E p \in percent : p <= q /\ Dots(p, q)}
        lparen == Lit(rest, "(")
        count == Num(lparen)
        slash == Lit(count, "/")
        total == Num(slash)
        rparen == Lit(total, ")")
    IN  rparen # {}

(***************************************************************************)
(* executeCommand, the body of the read loop for one chunk of n > 0 bytes: *)
(* the session cookie afterwards and the text written to stdout.           *)
(***************************************************************************)
\* a cookie update that keeps the provenance flags of the payload
UpdatedCookieAsSent(updatedCookie) == updatedCookie

\* the cookie a decoded cookie update leaves in the session
UpdatedCookie(updatedCookie) ==
    [updatedCookie EXCEPT !.fromGsqlClient = TRUE,
                          !.fromGraphStudio = FALSE,
                          !.gShellTest = TRUE,
                          !.fromGsqlServer = TRUE]

\* fmt.Print(strings.TrimSpace(data)), then fmt.Println() unless data ends in "\n"
PrintPlain(data) ==
    TrimSpace(data) \o (IF ~HasSuffix(data, <<"\n">>) THEN <<"\n">> ELSE <<>>)

\* a cookie branch that echoes the chunk when its payload does not decode
CookieBranchEchoes(cookie, data) ==
    LET parts == Split(data, CookieDelim)
    IN  IF Len(parts) > 1 /\ UnmarshalCookie(parts[2]).err = Nil
        THEN [Cookie |-> UpdatedCookie(UnmarshalCookie(parts[2]).val), print |-> <<>>]
        ELSE [Cookie |-> cookie, print |-> data]

\* a cookie branch that decodes the payload into the session's current cookie
CookieBranchMerges(cookie, data) ==
    LET parts == Split(data, CookieDelim)
        merged == Unmarshal(parts[2], cookie, CookieStringFields, CookieBoolFields)
    IN  IF Len(parts) > 1 /\ UnmarshalCookie(parts[2]).err = Nil
        THEN [Cookie |-> UpdatedCookie(merged.val), print |-> <<>>]
        ELSE [Cookie |-> cookie, print |-> <<>>]

\* a cookie branch that stores what it decoded even when the decoding failed
CookieBranchStoresUndecoded(cookie, data) ==
    LET parts == Split(data, CookieDelim)
    IN  IF Len(parts) > 1
        THEN [Cookie |-> UpdatedCookie(UnmarshalCookie(parts[2]).val), print |-> <<>>]
        ELSE [Cookie |-> cookie, print |-> <<>>]

\* the `else if strings.Contains(data, GSQL_COOKIES)` branch
CookieBranch(cookie, data) ==
    LET parts == Split(data, CookieDelim)
    IN  IF Len(parts) > 1 /\ UnmarshalCookie(parts[2]).err = Nil
        THEN [Cookie |-> UpdatedCookie(UnmarshalCookie(parts[2]).val), print |-> <<>>]
        ELSE [Cookie |-> cookie, print |-> <<>>]

\* a chunk handling that prints the control chunks that are no cookie update
handleChunkPrintsControl(cookie, data) ==
    IF ~Contains(data, GSQL_SEPARATOR)
    THEN IF progressRegex(data)
         THEN [Cookie |-> cookie, print |-> data]
         ELSE [Cookie |-> cookie, print |-> PrintPlain(data)]
    ELSE IF Contains(data, GSQL_COOKIES)
         THEN CookieBranch(cookie, data)
         ELSE [Cookie |-> cookie, print |-> PrintPlain(data)]

handleChunk(cookie, data) ==
    IF ~Contains(data, GSQL_SEPARATOR)
    THEN IF progressRegex(data)
         THEN [Cookie |-> cookie, print |-> data]
         ELSE [Cookie |-> cookie, print |-> PrintPlain(data)]
    ELSE IF Contains(data, GSQL_COOKIES)
         THEN CookieBranch(cookie, data)
         ELSE [Cookie |-> cookie, print |-> <<>>]

(***************************************************************************)
(* login: the cookie seeded for one attempt, and attemptLogin on the       *)
(* server's answer resp = [err, body, setCookie].                          *)
(***************************************************************************)
SeedCookie(commit) ==
    [clientCommit |-> commit, fromGsqlClient |-> FALSE, fromGraphStudio |-> FALSE,
     gShellTest |-> TRUE, fromGsqlServer |-> FALSE,
     ApplicationGatewayAffinity |-> "", ApplicationGatewayAffinityCORS |-> ""]

\* the block without the exemption of the reserved account
CompatibleNoReservedAccount(s, loginResp, setCookie) ==
    IF loginResp.error
    THEN [err |-> Errorf(loginResp.message), Cookie |-> s.Cookie]
    ELSE IF setCookie # <<>> /\ UnmarshalCookie(setCookie).err = Nil
         THEN [err |-> Nil, Cookie |-> UnmarshalCookie(setCookie).val]
         ELSE [err |-> Nil, Cookie |-> s.Cookie]

\* the `if loginResp.IsClientCompatible` block
Compatible(s, loginResp, setCookie) ==
    IF loginResp.error /\ s.User # "__GSQL__secret"
    THEN [err |-> Errorf(loginResp.message), Cookie |-> s.Cookie]
    ELSE IF setCookie # <<>> /\ UnmarshalCookie(setCookie).err = Nil
         THEN [err |-> Nil, Cookie |-> UnmarshalCookie(setCookie).val]
         ELSE [err |-> Nil, Cookie |-> s.Cookie]

attemptLogin(s, version, resp) ==
    IF resp.err # Nil
    THEN [err |-> resp.err, Cookie |-> s.Cookie]
    ELSE LET loginResp == UnmarshalLoginResp(resp.body)
         IN  IF loginResp.err # Nil
             THEN [err |-> loginResp.err, Cookie |-> s.Cookie]
             ELSE IF loginResp.val.isClientCompatible
                  THEN Compatible(s, loginResp.val, resp.setCookie)
                  ELSE [err |-> Errorf("client not compatible with version " \o version),
                        Cookie |-> s.Cookie]

(***************************************************************************)
(* The environment: the machines of the configuration, the command line,   *)
(* the server's answers and the terminal's input.                          *)
(***************************************************************************)
\* viper's "machines" map
machines ==
    [prod |-> [host |-> "https://prod.tgcloud.io", user |-> "admin",
               password |-> "prodpass", gsPort |-> "14240"]]

\* getMachineConfig
getMachineConfig(alias) == IF alias \in DOMAIN machines THEN <<machines[alias]>> ELSE <<>>

\* the command lines of `tg server gsql`: --alias, --user (host, port and
\* password at one value)
FlagSets ==
    {[alias |-> "", user |-> "tigergraph"],
     [alias |-> "", user |-> "__GSQL__secret"],
     [alias |-> "prod", user |-> "tigergraph"],
     [alias |-> "staging", user |-> "tigergraph"]}

Member(key, valueTok) == <<Quote(key), ":", valueTok>>

\* login answers (body of TestGSQLSessionLogin's mock server and its variants)
BodyIncompatible ==
    <<"{">> \o Member("isClientCompatible", "false") \o <<",">>
    \o Member("error", "false") \o <<",">>
    \o Member("message", Quote("Client not compatible")) \o <<"}">>

BodyWelcome ==
    <<"{">> \o Member("isClientCompatible", "true") \o <<",">>
    \o Member("error", "false") \o <<",">>
    \o Member("welcomeMessage", Quote("Welcome to GSQL")) \o <<"}">>

BodyWrongPassword ==
    <<"{">> \o Member("isClientCompatible", "true") \o <<",">>
    \o Member("error", "true") \o <<",">>
    \o Member("message", Quote("Wrong password")) \o <<"}">>

BodyHTML == <<"<", "html", ">">>

\* a cookie artifact the server issues in Set-Cookie
ServerCookie ==
    <<"{">> \o Member("clientCommit", Quote("srv456")) \o <<",">>
    \o Member("fromGsqlClient", "false") \o <<",">>
    \o Member("fromGsqlServer", "true") \o <<",">>
    \o Member("ApplicationGatewayAffinity", Quote("gw1")) \o <<"}">>

LoginResponses ==
    {[err |-> Errorf("connection refused"), body |-> <<>>, setCookie |-> <<>>],
     [err |-> Nil, body |-> BodyHTML, setCookie |-> <<>>],
     [err |-> Nil, body |-> BodyIncompatible, setCookie |-> <<>>],
     [err |-> Nil, body |-> BodyWrongPassword, setCookie |-> <<>>],
     [err |-> Nil, body |-> BodyWelcome, setCookie |-> <<>>],
     [err |-> Nil, body |-> BodyWelcome, setCookie |-> ServerCookie],
     [err |-> Nil, body |-> BodyWelcome, setCookie |-> <<"session", "=", "abc">>]}

\* cookie payloads of a command's answer
PayloadTest ==
    <<"{">> \o Member("clientCommit", Quote("updated123")) \o <<",">>
    \o Member("fromGsqlClient", "true") \o <<",">>
    \o Member("fromGsqlServer", "true") \o <<"}">>

PayloadOther ==
    <<"{">> \o Member("fromGsqlClient", "false") \o <<",">>
    \o Member("fromGraphStudio", "true") \o <<",">>
    \o Member("gShellTest", "false") \o <<",">>
    \o Member("fromGsqlServer", "false") \o <<",">>
    \o Member("ApplicationGatewayAffinityCORS", Quote("gw2")) \o <<"}">>

ProgressLine ==
    <<"[", "=", "=", " ", " ", "]", " ", "4", "0", "%", " ", "(", "2", "/", "5", ")", "\n">>

\* the answers to a command: each the sequence of the server's writes
CommandBodies ==
    {<<>>,
     <<ProgressLine, <<"done", "\n">>>>,
     <<<<"Command", " ", "output">>, GSQL_COOKIES \o <<",">>, PayloadTest>>,
     <<GSQL_COOKIES \o <<",">> \o PayloadOther \o <<"\n">>, <<"done", "\n">>>>,
     <<<<"done", "\n">>, GSQL_COOKIES \o <<",", "{", "oops">>>>,
     <<<<"x">> \o GSQL_COOKIES \o <<"\n">>>>,
     <<GSQL_SEPARATOR \o <<"RETURN", "__", "CODE", "__", ",", "0", "\n">>,
       <<"Command", " ", "completed">>>>,
     <<ProgressLine \o GSQL_SEPARATOR \o <<"RETURN", "__", "CODE", "__", ",", "0", "\n">>>>}

\* what reader.ReadString('\n') returns: a line with its newline, or an error
Lines ==
    {<<"q", "u", "i", "t", "\n">>, <<"Q", "u", "i", "t", "\n">>,
     <<"Q", "U", "I", "T", "\n">>, <<"e", "x", "i", "t", "\n">>,
     <<"E", "x", "i", "t", "\n">>, <<"E", "X", "I", "T", "\n">>,
     <<" ", "q", "u", "i", "t", " ", "\r", "\n">>,
     <<"\n">>, <<" ", "\t", "\n">>, <<"l", "s", "\n">>}

StdinReads == {[line |-> l, err |-> Nil] : l \in Lines} \cup {[line |-> <<>>, err |-> Errorf("EOF")]}

(***************************************************************************)
(* State.                                                                  *)
(***************************************************************************)
VARIABLES
    pc,         \* where RunGSQL is: start, login, loginRet, prompt, reading, execRet, exit
    session,    \* the GSQLSession: Host, User, Password, Version, Cookie
    tried,      \* login: the keys the range over versionCommits has visited
    attempts,   \* login: the negotiation requests sent, [version, Cookie header]
    responses,  \* login: the answers received, one per request
    loginErr,   \* what login() returned
    input,      \* interactive loop: the last result of ReadString
    notice,     \* interactive loop: what it last printed besides the prompt
    req,        \* executeCommand: the request sent, <<[command, Cookie header]>>
    body,       \* executeCommand: the writes of the response body
    pos,        \* executeCommand: the next write of body to be read
    data,       \* executeCommand: the chunk of the last Read
    printed,    \* executeCommand: what it wrote to stdout for that chunk
    readErr,    \* executeCommand: the err of the last Read
    out,        \* executeCommand: what it has written to stdout
    execErr     \* what executeCommand returned

(***************************************************************************)
(* The state of the other entry points, which the session never touches.   *)
(***************************************************************************)
VARIABLES
    jsonPc,      \* TestGSQLCookieJSON: idle, cookie, marshaled, unmarshaled
    jsonCookie,  \* TestGSQLCookieJSON: the cookie under test
    jsonData,    \* TestGSQLCookieJSON: json.Marshal(cookie)
    unmarshaled  \* TestGSQLCookieJSON: err and value of json.Unmarshal(jsonData, ..)

jsonVars == <<jsonPc, jsonCookie, jsonData, unmarshaled>>

JsonIdle ==
    /\ jsonPc = "idle"
    /\ jsonCookie = ZeroCookie
    /\ jsonData = <<>>
    /\ unmarshaled = [err |-> Nil, val |-> ZeroCookie]

VARIABLES
    tvPc,        \* TestVersionCommits: idle, known, range, done
    tvIndex,     \* TestVersionCommits: the entry the range is at
    tvChar,      \* TestVersionCommits: the character the inner range is at, 0 before it
    tvErrors     \* TestVersionCommits: what t.Errorf reported

tableVars == <<tvPc, tvIndex, tvChar, tvErrors>>

TableIdle ==
    /\ tvPc = "idle"
    /\ tvIndex = 1
    /\ tvChar = 0
    /\ tvErrors = {}

VARIABLES
    viperCfg,    \* viper: the keys "machines" and "default" of the configuration
    confBefore,  \* RunConfAdd, RunConfDelete: viperCfg when the last call began
    confCall,    \* RunConfAdd, RunConfDelete: the last call, its alias and its message
    confHist     \* the default alias at the start, and the alias of the last add
                 \* that stored a machine as default and was not deleted since

confVars == <<viperCfg, confBefore, confCall, confHist>>

NoMachines == [a \in {} |-> ""]

ConfIdle ==
    /\ viperCfg = [machines |-> NoMachines, default |-> ""]
    /\ confBefore = [machines |-> NoMachines, default |-> ""]
    /\ confCall = [op |-> "", alias |-> "", out |-> ""]
    /\ confHist = [start |-> "", asDefault |-> ""]

VARIABLES
    maskPc,      \* maskPassword: idle, call, return
    password,    \* maskPassword: its argument, one element per byte
    masked       \* maskPassword: its result

maskVars == <<maskPc, password, masked>>

MaskIdle ==
    /\ maskPc = "idle"
    /\ password = <<>>
    /\ masked = <<>>

\* everything outside the GSQL session
toolVars == <<jsonVars, tableVars, confVars, maskVars>>

ToolsIdle == JsonIdle /\ TableIdle /\ ConfIdle /\ MaskIdle

vars ==
    <<pc, session, tried, attempts, responses, loginErr, input, notice, req, body, pos,
      data, printed, readErr, out, execErr>>

loginVars == <<tried, attempts, responses, loginErr>>

execVars == <<req, body, pos, data, printed, readErr, out, execErr>>

NoInput == [line |-> <<>>, err |-> Nil]

\* the session before RunGSQL is called
SessionIdle ==
    /\ pc = "start"
    /\ session = [Host |-> "", User |-> "", Password |-> "", Version |-> "",
                  Cookie |-> ZeroCookie]
    /\ tried = {}
    /\ attempts = <<>>
    /\ responses = <<>>
    /\ loginErr = Nil
    /\ input = NoInput
    /\ notice = <<>>
    /\ req = <<>>
    /\ body = <<>>
    /\ pos = 1
    /\ data = <<>>
    /\ printed = <<>>
    /\ readErr = Nil
    /\ out = <<>>
    /\ execErr = Nil

Init == SessionIdle /\ ToolsIdle

(***************************************************************************)
(* RunGSQL up to the call of login().                                      *)
(***************************************************************************)
RunGSQL(flags) ==
    /\ pc = "start"
    /\ IF flags.alias # "" /\ getMachineConfig(flags.alias) = <<>>
       THEN /\ pc' = "exit"
            /\ UNCHANGED session
       ELSE LET m == IF flags.alias # ""
                     THEN getMachineConfig(flags.alias)[1]
                     ELSE [host |-> "http://127.0.0.1", user |-> flags.user,
                           password |-> "tigergraph", gsPort |-> "14240"]
            IN  /\ pc' = "login"
                /\ session' = [Host |-> m.host \o ":" \o m.gsPort, User |-> m.user,
                               Password |-> m.password, Version |-> "",
                               Cookie |-> ZeroCookie]
    /\ UNCHANGED <<loginVars, input, notice, execVars, toolVars>>

(***************************************************************************)
(* login(): one iteration of `for version, commit := range versionCommits`.*)
(* The order of a range over a map is unspecified: any key not yet visited *)
(* can come next.  After the last key the loop ends and login returns the  *)
(* "unable to establish" error.                                            *)
(***************************************************************************)
\* login() that goes on to the next key after an accepted attempt
LoginStepNoReturn(version, resp) ==
    LET seeded == [session EXCEPT !.Cookie = SeedCookie(CommitOf(version))]
        r == attemptLogin(seeded, version, resp)
    IN  /\ attempts' = Append(attempts, [version |-> version,
                                         Cookie |-> MarshalCookie(seeded.Cookie)])
        /\ responses' = Append(responses, resp)
        /\ tried' = tried \cup {version}
        /\ session' = IF r.err = Nil
                      THEN [seeded EXCEPT !.Cookie = r.Cookie, !.Version = version]
                      ELSE [seeded EXCEPT !.Cookie = r.Cookie]
        /\ IF tried' = Versions
           THEN /\ loginErr' = IF r.err = Nil
                               THEN Nil
                               ELSE Errorf("unable to establish compatible connection")
                /\ pc' = "loginRet"
           ELSE /\ loginErr' = Nil
                /\ pc' = "login"

\* login() whose loop gives up before the last key
LoginStepSkipLast(version, resp) ==
    LET seeded == [session EXCEPT !.Cookie = SeedCookie(CommitOf(version))]
        r == attemptLogin(seeded, version, resp)
    IN  /\ attempts' = Append(attempts, [version |-> version,
                                         Cookie |-> MarshalCookie(seeded.Cookie)])
        /\ responses' = Append(responses, resp)
        /\ tried' = tried \cup {version}
        /\ IF r.err = Nil
           THEN /\ session' = [seeded EXCEPT !.Cookie = r.Cookie, !.Version = version]
                /\ loginErr' = Nil
                /\ pc' = "loginRet"
           ELSE /\ session' = [seeded EXCEPT !.Cookie = r.Cookie]
                /\ IF Cardinality(tried') >= Cardinality(Versions) - 1
                   THEN /\ loginErr' = Errorf("unable to establish compatible connection")
                        /\ pc' = "loginRet"
                   ELSE /\ loginErr' = Nil
                        /\ pc' = "login"

\* login() that records the version of every attempt, accepted or not
LoginStepRecordsVersionEarly(version, resp) ==
    LET seeded == [session EXCEPT !.Cookie = SeedCookie(CommitOf(version)),
                                  !.Version = version]
        r == attemptLogin(seeded, version, resp)
    IN  /\ attempts' = Append(attempts, [version |-> version,
                                         Cookie |-> MarshalCookie(seeded.Cookie)])
        /\ responses' = Append(responses, resp)
        /\ tried' = tried \cup {version}
        /\ IF r.err = Nil
           THEN /\ session' = [seeded EXCEPT !.Cookie = r.Cookie, !.Version = version]
                /\ loginErr' = Nil
                /\ pc' = "loginRet"
           ELSE /\ session' = [seeded EXCEPT !.Cookie = r.Cookie]
                /\ IF tried' = Versions
                   THEN /\ loginErr' = Errorf("unable to establish compatible connection")
                        /\ pc' = "loginRet"
                   ELSE /\ loginErr' = Nil
                        /\ pc' = "login"

\* login() that returns an attempt's JSON decoding error instead of going on
LoginStepAbortsOnParseError(version, resp) ==
    LET seeded == [session EXCEPT !.Cookie = SeedCookie(CommitOf(version))]
        r == attemptLogin(seeded, version, resp)
    IN  /\ attempts' = Append(attempts, [version |-> version,
                                         Cookie |-> MarshalCookie(seeded.Cookie)])
        /\ responses' = Append(responses, resp)
        /\ tried' = tried \cup {version}
        /\ IF r.err = Nil
           THEN /\ session' = [seeded EXCEPT !.Cookie = r.Cookie, !.Version = version]
                /\ loginErr' = Nil
                /\ pc' = "loginRet"
           ELSE /\ session' = [seeded EXCEPT !.Cookie = r.Cookie]
                /\ IF resp.err = Nil /\ UnmarshalLoginResp(resp.body).err # Nil
                   THEN /\ loginErr' = r.err
                        /\ pc' = "loginRet"
                   ELSE IF tried' = Versions
                        THEN /\ loginErr' = Errorf("unable to establish compatible connection")
                             /\ pc' = "loginRet"
                        ELSE /\ loginErr' = Nil
                             /\ pc' = "login"

LoginStep(version, resp) ==
    LET seeded == [session EXCEPT !.Cookie = SeedCookie(CommitOf(version))]
        r == attemptLogin(seeded, version, resp)
    IN  /\ attempts' = Append(attempts, [version |-> version,
                                         Cookie |-> MarshalCookie(seeded.Cookie)])
        /\ responses' = Append(responses, resp)
        /\ tried' = tried \cup {version}
        /\ IF r.err = Nil
           THEN /\ session' = [seeded EXCEPT !.Cookie = r.Cookie, !.Version = version]
                /\ loginErr' = Nil
                /\ pc' = "loginRet"
           ELSE /\ session' = [seeded EXCEPT !.Cookie = r.Cookie]
                /\ IF tried' = Versions
                   THEN /\ loginErr' = Errorf("unable to establish compatible connection")
                        /\ pc' = "loginRet"
                   ELSE /\ loginErr' = Nil
                        /\ pc' = "login"

login(version, resp) ==
    /\ pc = "login"
    /\ version \in Versions \ tried
    /\ LoginStep(version, resp)
    /\ UNCHANGED <<input, notice, execVars, toolVars>>

\* RunGSQL that starts the interactive loop whatever login() returned
RunGSQLAfterLoginIgnoresError ==
    /\ pc = "loginRet"
    /\ pc' = "prompt"
    /\ tried' = {}
    /\ attempts' = <<>>
    /\ responses' = <<>>
    /\ loginErr' = Nil
    /\ UNCHANGED <<session, input, notice, execVars, toolVars>>

\* RunGSQL after login() has returned
RunGSQLAfterLogin ==
    /\ pc = "loginRet"
    /\ pc' = IF loginErr # Nil THEN "exit" ELSE "prompt"
    /\ tried' = {}
    /\ attempts' = <<>>
    /\ responses' = <<>>
    /\ loginErr' = Nil
    /\ UNCHANGED <<session, input, notice, execVars, toolVars>>

(***************************************************************************)
(* startInteractiveSession: one iteration of its loop, up to and including *)
(* the request executeCommand sends.  answer = [err, body] is what         *)
(* Client.Do returns.                                                      *)
(***************************************************************************)
CommandAnswers ==
    {[err |-> Nil, body |-> b] : b \in CommandBodies}
    \cup {[err |-> Errorf("connection refused"), body |-> <<>>]}

\* `command == "Quit" || command == "quit" || command == "exit"`
IsQuit(command) ==
    \/ command = <<"Q", "u", "i", "t">>
    \/ command = <<"q", "u", "i", "t">>
    \/ command = <<"e", "x", "i", "t">>

\* executeCommand that sends the cookie login() seeded for the session's version
executeCommandSendSeedCookie(command, answer) ==
    /\ req' = <<[command |-> command,
                 Cookie |-> MarshalCookie(SeedCookie(CommitOf(session.Version)))]>>
    /\ IF answer.err # Nil
       THEN /\ execErr' = answer.err
            /\ pc' = "execRet"
            /\ UNCHANGED <<body, pos>>
       ELSE /\ execErr' = Nil
            /\ pc' = "reading"
            /\ body' = answer.body
            /\ pos' = 1
    /\ UNCHANGED <<session, data, printed, readErr, out>>

\* executeCommand from its entry to the return of Client.Do
executeCommandSend(command, answer) ==
    /\ req' = <<[command |-> command, Cookie |-> MarshalCookie(session.Cookie)]>>
    /\ IF answer.err # Nil
       THEN /\ execErr' = answer.err
            /\ pc' = "execRet"
            /\ UNCHANGED <<body, pos>>
       ELSE /\ execErr' = Nil
            /\ pc' = "reading"
            /\ body' = answer.body
            /\ pos' = 1
    /\ UNCHANGED <<session, data, printed, readErr, out>>

\* a loop that ends when the input line cannot be read
LoopStepQuitsOnReadError(rd, answer) ==
    IF rd.err # Nil
    THEN pc' = "exit" /\ UNCHANGED <<session, execVars>>
    ELSE IF IsQuit(TrimSpace(rd.line))
         THEN pc' = "exit" /\ UNCHANGED <<session, execVars>>
         ELSE IF TrimSpace(rd.line) = <<>>
              THEN pc' = "prompt" /\ UNCHANGED <<session, execVars>>
              ELSE executeCommandSend(TrimSpace(rd.line), answer)

\* a loop that forwards blank lines too
LoopStepForwardsBlank(rd, answer) ==
    IF rd.err # Nil
    THEN pc' = "prompt" /\ UNCHANGED <<session, execVars>>
    ELSE IF IsQuit(TrimSpace(rd.line))
         THEN pc' = "exit" /\ UNCHANGED <<session, execVars>>
         ELSE executeCommandSend(TrimSpace(rd.line), answer)

LoopStep(rd, answer) ==
    IF rd.err # Nil
    THEN pc' = "prompt" /\ UNCHANGED <<session, execVars>>
    ELSE IF IsQuit(TrimSpace(rd.line))
         THEN pc' = "exit" /\ UNCHANGED <<session, execVars>>
         ELSE IF TrimSpace(rd.line) = <<>>
              THEN pc' = "prompt" /\ UNCHANGED <<session, execVars>>
              ELSE executeCommandSend(TrimSpace(rd.line), answer)

\* what an iteration prints before it handles the command
LoopNotice(rd) ==
    IF rd.err # Nil
    THEN <<"Error reading input: " \o rd.err[1]>>
    ELSE IF IsQuit(TrimSpace(rd.line)) THEN <<"Goodbye!">> ELSE <<>>

startInteractiveSession(rd, answer) ==
    /\ pc = "prompt"
    /\ input' = rd
    /\ notice' = LoopNotice(rd)
    /\ LoopStep(rd, answer)
    /\ UNCHANGED <<loginVars, toolVars>>

(***************************************************************************)
(* executeCommand: one iteration of the read loop.  resp.Body.Read returns *)
(* the bytes of the next k writes (k = 0: none) and err: nil, io.EOF once  *)
(* the body is delivered, or a transport error at any point.               *)
(***************************************************************************)
RECURSIVE Concat(_)
Concat(seqs) == IF seqs = <<>> THEN <<>> ELSE Head(seqs) \o Concat(Tail(seqs))

ReadErrors == {Nil, Errorf("EOF"), Errorf("unexpected EOF")}

ReadStep(k, err) ==
    LET chunk == Concat(SubSeq(body, pos, pos + k - 1))
        r == handleChunk(session.Cookie, chunk)
    IN  /\ pos' = pos + k
        /\ readErr' = err
        /\ IF k > 0
           THEN /\ data' = chunk
                /\ printed' = r.print
                /\ out' = out \o r.print
                /\ session' = [session EXCEPT !.Cookie = r.Cookie]
           ELSE UNCHANGED <<data, printed, out, session>>
        /\ IF err # Nil
           THEN pc' = "execRet" /\ execErr' = Nil
           ELSE pc' = "reading" /\ UNCHANGED execErr

executeCommandRead(k, err) ==
    /\ pc = "reading"
    /\ k \in 0..(Len(body) - pos + 1)
    /\ err = Nil => k > 0
    /\ err = Errorf("EOF") => pos + k = Len(body) + 1
    /\ ReadStep(k, err)
    /\ UNCHANGED <<loginVars, input, notice, req, body, toolVars>>

\* fmt.Printf("Error executing command: %v\n", err) when executeCommand failed
ExecNotice ==
    IF execErr # Nil THEN <<"Error executing command: " \o execErr[1]>> ELSE <<>>

\* a loop that gives up the session after a command whose read failed
executeCommandReturnAborts ==
    /\ pc = "execRet"
    /\ pc' = IF readErr \in {Nil, Errorf("EOF")} THEN "prompt" ELSE "exit"
    /\ req' = <<>>
    /\ body' = <<>>
    /\ pos' = 1
    /\ data' = <<>>
    /\ printed' = <<>>
    /\ readErr' = Nil
    /\ out' = <<>>
    /\ execErr' = Nil
    /\ notice' = ExecNotice
    /\ UNCHANGED <<session, loginVars, input, toolVars>>

\* startInteractiveSession after executeCommand has returned
executeCommandReturn ==
    /\ pc = "execRet"
    /\ pc' = "prompt"
    /\ req' = <<>>
    /\ body' = <<>>
    /\ pos' = 1
    /\ data' = <<>>
    /\ printed' = <<>>
    /\ readErr' = Nil
    /\ out' = <<>>
    /\ execErr' = Nil
    /\ notice' = ExecNotice
    /\ UNCHANGED <<session, loginVars, input, toolVars>>

Next ==
    \/ \E flags \in FlagSets : RunGSQL(flags)
    \/ \E version \in Versions, resp \in LoginResponses : login(version, resp)
    \/ RunGSQLAfterLogin
    \/ \E rd \in StdinReads, answer \in CommandAnswers : startInteractiveSession(rd, answer)
    \/ \E k \in 0..Len(body), err \in ReadErrors : executeCommandRead(k, err)
    \/ executeCommandReturn

Spec == Init /\ [][Next]_vars

(***************************************************************************)
(* Properties.                                                             *)
(***************************************************************************)
Decoded(resp) == UnmarshalLoginResp(resp.body)

\* the answer says isClientCompatible=false
IsIncompatible(resp) ==
    resp.err = Nil /\ Decoded(resp).err = Nil /\ ~Decoded(resp).val.isClientCompatible

\* the answer says isClientCompatible=true, error=false
IsAccepted(resp) ==
    /\ resp.err = Nil
    /\ Decoded(resp).err = Nil
    /\ Decoded(resp).val.isClientCompatible
    /\ ~Decoded(resp).val.error

\* the answer says isClientCompatible=true, error=true
IsCredentialRejection(resp) ==
    /\ resp.err = Nil
    /\ Decoded(resp).err = Nil
    /\ Decoded(resp).val.isClientCompatible
    /\ Decoded(resp).val.error

\* C1: once an answer has isClientCompatible=true and error=true and the user
\* is not __GSQL__secret, login() has returned the server's message as its
\* error and that answer's request is the last one sent.
C1_CredentialRejectionIsTerminal ==
    \A i \in 1..Len(responses) :
        (IsCredentialRejection(responses[i]) /\ session.User # "__GSQL__secret")
            => /\ Len(attempts) = i
               /\ pc = "loginRet"
               /\ loginErr = Errorf(Decoded(responses[i]).val.message)

\* C2: when the first K answers are isClientCompatible=false and answer K+1 is
\* an acceptance, login() has returned nil after exactly K+1 requests and
\* Session.Version is the version of request K+1.
C2_StopsAtFirstAccepted ==
    \A K \in 0..(Len(versionCommits) - 1) :
        (/\ Len(responses) > K
         /\ \A i \in 1..K : IsIncompatible(responses[i])
         /\ IsAccepted(responses[K + 1]))
            => /\ pc = "loginRet"
               /\ Len(attempts) = K + 1
               /\ Len(responses) = K + 1
               /\ loginErr = Nil
               /\ session.Version = attempts[K + 1].version
               /\ session.Version \in Versions

\* C2 witness: two rejections, then the third version is accepted
C2_Witness ==
    /\ pc = "loginRet"
    /\ Len(responses) = 3
    /\ IsIncompatible(responses[1])
    /\ IsIncompatible(responses[2])
    /\ IsAccepted(responses[3])
    /\ session.Version = attempts[3].version

\* C3: when every answer is isClientCompatible=false, login() returns after one
\* request per table entry, none repeated and none skipped, with the "unable
\* to establish compatible connection" error and Session.Version still empty.
C3_ExhaustsTable ==
    (pc = "loginRet" /\ \A i \in 1..Len(responses) : IsIncompatible(responses[i]))
        => /\ Len(attempts) = Len(versionCommits)
           /\ {attempts[i].version : i \in 1..Len(attempts)} = Versions
           /\ loginErr = Errorf("unable to establish compatible connection")
           /\ session.Version = ""

\* C3 witness: the whole table was answered with isClientCompatible=false
C3_Witness ==
    /\ pc = "loginRet"
    /\ Len(responses) = Len(versionCommits)
    /\ \A i \in 1..Len(responses) : IsIncompatible(responses[i])
    /\ loginErr # Nil

\* C4: the i-th negotiation request carries the cookie seeded with the
\* fingerprint of the i-th entry of the version table.
C4_TableOrder ==
    \A i \in 1..Len(attempts) :
        attempts[i].Cookie = MarshalCookie(SeedCookie(versionCommits[i][2]))

\* the chunk holds the control separator and the cookie sub-marker
IsCookieUpdate(chunk) == Contains(chunk, GSQL_SEPARATOR) /\ Contains(chunk, GSQL_COOKIES)

\* the payload of a cookie update: the text after the "__," delimiter
HasPayload(chunk) == Len(Split(chunk, CookieDelim)) > 1

PayloadOf(chunk) == Split(chunk, CookieDelim)[2]

\* the payload is a valid JSON cookie artifact
ValidPayload(chunk) == HasPayload(chunk) /\ UnmarshalCookie(PayloadOf(chunk)).err = Nil

\* C5: after a chunk with the control separator, the cookie sub-marker and a
\* valid JSON payload, Session.Cookie has fromGsqlClient and fromGsqlServer true,
\* fromGraphStudio false and gShellTest true, whatever the payload said.
C5_ProvenanceFlagsForced ==
    (data # <<>> /\ IsCookieUpdate(data) /\ ValidPayload(data))
        => /\ session.Cookie.fromGsqlClient = TRUE
           /\ session.Cookie.fromGsqlServer = TRUE
           /\ session.Cookie.fromGraphStudio = FALSE
           /\ session.Cookie.gShellTest = TRUE

\* C5 witness: the payload gave the opposite value for each of the four flags
C5_Witness ==
    /\ data # <<>>
    /\ IsCookieUpdate(data)
    /\ ValidPayload(data)
    /\ UnmarshalCookie(PayloadOf(data)).val.fromGsqlClient = FALSE
    /\ UnmarshalCookie(PayloadOf(data)).val.fromGsqlServer = FALSE
    /\ UnmarshalCookie(PayloadOf(data)).val.fromGraphStudio = TRUE
    /\ session.Cookie.fromGsqlClient = TRUE

\* the session cookie when the command's request was sent
CookieAtSend == UnmarshalCookie(req[1].Cookie).val

\* C6: once the whole body has been read, the output and Session.Cookie are
\* what they are when the same bytes arrive in a single read.
C6_SplitIndependent ==
    (pc = "execRet" /\ readErr = Errorf("EOF") /\ body # <<>>)
        => /\ out = handleChunk(CookieAtSend, Concat(body)).print
           /\ session.Cookie = handleChunk(CookieAtSend, Concat(body)).Cookie

\* C7: a chunk without the control separator is written verbatim when it
\* matches the progress pattern, and otherwise as its trimmed text followed by
\* exactly one newline.
C7_PlainChunkGetsOneNewline ==
    (data # <<>> /\ ~Contains(data, GSQL_SEPARATOR))
        => printed = IF progressRegex(data) THEN data ELSE TrimSpace(data) \o <<"\n">>

\* C8: a chunk with the control separator and the cookie sub-marker writes
\* nothing to the output, whether or not its payload decodes.
C8_CookieChunkNotEchoed ==
    (data # <<>> /\ IsCookieUpdate(data)) => printed = <<>>

\* C8 witness: a cookie chunk whose payload does not decode has been read,
\* after ordinary output was written
C8_Witness ==
    /\ data # <<>>
    /\ IsCookieUpdate(data)
    /\ ~ValidPayload(data)
    /\ printed = <<>>
    /\ out # <<>>

LowerChar(c) ==
    CASE c = "Q" -> "q" [] c = "U" -> "u" [] c = "I" -> "i" [] c = "T" -> "t"
      [] c = "E" -> "e" [] c = "X" -> "x" [] c = "Y" -> "y" [] c = "S" -> "s"
      [] OTHER -> c

ToLower(s) == [i \in 1..Len(s) |-> LowerChar(s[i])]

\* the line, trimmed, is quit or exit in some letter case
IsQuitAnyCase(line) ==
    ToLower(TrimSpace(line)) \in {<<"q", "u", "i", "t">>, <<"e", "x", "i", "t">>}

\* C9: a line that trimmed is quit or exit in any letter case ends the loop and
\* is not sent as a command.
C9_QuitAnyCase ==
    /\ (input.err = Nil /\ IsQuitAnyCase(input.line)) => pc = "exit"
    /\ \A i \in 1..Len(req) : ~IsQuitAnyCase(req[i].command)

\* C10: a step of the interactive loop that reads an empty or white-space-only
\* line sends no request, leaves the session and everything else as it was and
\* stays at the prompt.
C10_BlankLineIsNoOp ==
    [][(pc = "prompt" /\ input'.err = Nil /\ TrimSpace(input'.line) = <<>>)
          => /\ pc' = "prompt"
             /\ session' = session
             /\ req' = req
             /\ UNCHANGED <<loginVars, execVars>>]_vars

\* C10 witness: back at the prompt after a white-space-only line
C10_Witness ==
    /\ pc = "prompt"
    /\ input.err = Nil
    /\ input.line = <<" ", "\t", "\n">>
    /\ session.Version # ""

(***************************************************************************)
(* TestGSQLCookieJSON of models_test.go, over every GSQLCookie the bounded *)
(* field values give: json.Marshal, then json.Unmarshal into a zero value. *)
(***************************************************************************)
TestCookies ==
    [clientCommit : {"", "test123"}, fromGsqlClient : BOOLEAN,
     fromGraphStudio : BOOLEAN, gShellTest : BOOLEAN, fromGsqlServer : BOOLEAN,
     ApplicationGatewayAffinity : {"", "gw1"},
     ApplicationGatewayAffinityCORS : {"", "gw2"}]

JsonInit ==
    /\ SessionIdle /\ TableIdle /\ ConfIdle /\ MaskIdle
    /\ jsonPc = "cookie"
    /\ jsonCookie \in TestCookies
    /\ jsonData = <<>>
    /\ unmarshaled = [err |-> Nil, val |-> ZeroCookie]

TestGSQLCookieJSONMarshal ==
    /\ jsonPc = "cookie"
    /\ jsonData' = MarshalCookie(jsonCookie)
    /\ jsonPc' = "marshaled"
    /\ UNCHANGED <<vars, jsonCookie, unmarshaled, tableVars, confVars, maskVars>>

TestGSQLCookieJSONUnmarshal ==
    /\ jsonPc = "marshaled"
    /\ unmarshaled' = UnmarshalCookie(jsonData)
    /\ jsonPc' = "unmarshaled"
    /\ UNCHANGED <<vars, jsonCookie, jsonData, tableVars, confVars, maskVars>>

JsonNext == TestGSQLCookieJSONMarshal \/ TestGSQLCookieJSONUnmarshal

SpecJson == JsonInit /\ [][JsonNext]_<<vars, toolVars>>

\* the serialized cookie has a member with this key
HasKey(toks, key) == \E i \in 1..Len(toks) : toks[i] = Quote(key)

\* C11: a cookie serialized to JSON and parsed back equals the original field
\* for field, whatever its four flags and whether or not its affinity tokens
\* are set; an affinity token that is not set has no member in the serialized
\* form (it is left out, not written as an empty string).
C11_CookieRoundTrip ==
    jsonPc = "unmarshaled" =>
        /\ unmarshaled.err = Nil
        /\ \A f \in DOMAIN jsonCookie : unmarshaled.val[f] = jsonCookie[f]
        /\ DOMAIN unmarshaled.val = DOMAIN jsonCookie
        /\ \A f \in {"ApplicationGatewayAffinity", "ApplicationGatewayAffinityCORS"} :
              HasKey(jsonData, f) <=> jsonCookie[f] # ""

C11_Witness ==
    /\ jsonPc = "unmarshaled"
    /\ jsonCookie.ApplicationGatewayAffinity = ""
    /\ jsonCookie.ApplicationGatewayAffinityCORS = "gw2"
    /\ jsonCookie.fromGsqlClient
    /\ ~jsonCookie.fromGraphStudio
    /\ jsonCookie.clientCommit = "test123"
    /\ unmarshaled.val = jsonCookie

(***************************************************************************)
(* TestVersionCommits of server_test.go: the known versions, then for each *)
(* entry of versionCommits the length of the commit and its characters one *)
(* by one.  The entries are taken in the order of the literal; each        *)
(* iteration reports on its own entry only.                                *)
(***************************************************************************)
RECURSIVE Join(_)
\* the string made of the characters cs
Join(cs) == IF cs = <<>> THEN "" ELSE Head(cs) \o Join(Tail(cs))

\* the character sequences a commit string is matched against: those of the
\* table and one in upper case
Spellable ==
    {<<>>,
     <<"3", "1", "7", "1", "6", "a", "a", "9", "8", "a", "0", "d", "4", "b",
       "d", "3", "b", "d", "7", "c", "5", "4", "8", "8", "d", "f", "c", "7",
       "9", "5", "a", "8", "2", "d", "f", "e", "e", "8", "0", "d">>,
     <<"b", "7", "7", "b", "8", "f", "c", "6", "c", "2", "c", "e", "a", "d",
       "d", "4", "5", "7", "5", "7", "1", "f", "c", "0", "a", "6", "c", "e",
       "1", "f", "b", "2", "4", "3", "e", "5", "f", "3", "1", "c">>,
     <<"7", "e", "d", "b", "2", "5", "6", "d", "9", "7", "5", "0", "a", "b",
       "4", "4", "5", "1", "d", "2", "7", "e", "e", "f", "6", "0", "5", "e",
       "5", "8", "e", "9", "a", "d", "c", "e", "d", "c", "7", "a">>,
     <<"3", "7", "5", "e", "6", "6", "1", "f", "9", "6", "2", "9", "8", "d",
       "b", "4", "d", "f", "0", "1", "8", "0", "3", "7", "9", "4", "9", "8",
       "2", "7", "e", "1", "6", "e", "e", "8", "d", "f", "6", "0">>,
     <<"4", "2", "1", "b", "0", "7", "4", "0", "e", "4", "a", "9", "f", "6",
       "1", "d", "6", "e", "b", "0", "e", "0", "3", "a", "4", "d", "2", "0",
       "7", "9", "d", "e", "6", "2", "5", "a", "3", "f", "f", "e">>,
     <<"9", "0", "c", "c", "0", "5", "1", "2", "8", "5", "1", "a", "c", "c",
       "a", "2", "b", "e", "1", "0", "0", "4", "4", "8", "7", "8", "8", "1",
       "5", "b", "c", "4", "1", "4", "8", "7", "6", "f", "2", "3">>,
     <<"a", "3", "1", "2", "2", "0", "2", "6", "1", "f", "4", "4", "0", "f",
       "6", "1", "e", "b", "f", "3", "e", "d", "f", "b", "1", "a", "8", "4",
       "e", "f", "b", "a", "6", "2", "9", "3", "9", "1", "7", "7">>,
     <<"9", "8", "6", "e", "0", "9", "c", "5", "d", "1", "7", "d", "3", "0",
       "3", "6", "5", "9", "b", "e", "d", "1", "3", "4", "2", "5", "0", "6",
       "a", "1", "c", "4", "5", "8", "4", "6", "2", "e", "3", "0">>,
     <<"f", "4", "5", "1", "d", "8", "a", "9", "a", "6", "6", "c", "7", "c",
       "a", "0", "d", "8", "d", "4", "d", "9", "0", "4", "6", "f", "4", "4",
       "0", "f", "2", "1", "0", "9", "7", "c", "d", "d", "0", "3">>,
     <<"7", "1", "b", "3", "9", "b", "2", "5", "e", "1", "9", "8", "f", "6",
       "9", "0", "e", "2", "8", "1", "1", "3", "e", "7", "f", "8", "8", "7",
       "4", "d", "a", "b", "7", "b", "4", "5", "5", "9", "e", "c">>,
     <<"f", "9", "1", "c", "6", "9", "0", "f", "3", "7", "5", "e", "c", "d",
       "4", "d", "6", "0", "0", "e", "b", "1", "2", "6", "c", "a", "5", "a",
       "9", "2", "0", "a", "5", "c", "9", "a", "d", "0", "f", "4">>,
     <<"3", "8", "8", "7", "c", "b", "d", "1", "d", "6", "7", "b", "5", "8",
       "b", "a", "6", "f", "8", "8", "c", "5", "0", "a", "0", "6", "9", "b",
       "6", "7", "9", "e", "2", "0", "7", "4", "3", "9", "8", "4">>,
     <<"3", "7", "5", "a", "1", "8", "2", "b", "c", "0", "3", "b", "0", "c",
       "7", "8", "b", "4", "8", "9", "e", "1", "8", "a", "0", "d", "6", "a",
       "f", "2", "2", "2", "9", "1", "6", "a", "4", "8", "d", "2">>,
     <<"e", "9", "d", "3", "c", "5", "d", "9", "8", "e", "7", "2", "2", "9",
       "1", "1", "8", "3", "0", "9", "f", "6", "d", "4", "b", "b", "c", "9",
       "4", "4", "6", "b", "a", "d", "7", "c", "4", "c", "3", "d">>,
     <<"a", "9", "f", "9", "0", "2", "e", "5", "c", "5", "5", "2", "7", "8",
       "0", "5", "8", "9", "a", "1", "5", "b", "a", "4", "5", "8", "a", "d",
       "b", "4", "8", "9", "8", "4", "3", "5", "9", "1", "6", "5">>,
     <<"c", "9", "0", "e", "c", "7", "4", "6", "a", "7", "e", "7", "7", "e",
       "f", "5", "b", "1", "0", "8", "5", "5", "4", "b", "e", "2", "1", "3",
       "3", "d", "f", "d", "1", "e", "1", "a", "b", "1", "b", "2">>,
     <<"C", "9", "0", "E", "C", "7", "4", "6", "A", "7", "E", "7", "7", "E",
       "F", "5", "B", "1", "0", "8", "5", "5", "4", "B", "E", "2", "1", "3",
       "3", "D", "F", "D", "1", "E", "1", "A", "B", "1", "B", "2">>}

\* the characters of a string, as `for _, char := range commit` yields them
Chars(str) == CHOOSE cs \in Spellable : Join(cs) = str

\* (char >= '0' && char <= '9') || (char >= 'a' && char <= 'f')
IsLowerHex(char) ==
    char \in {"0", "1", "2", "3", "4", "5", "6", "7", "8", "9", "a", "b", "c", "d", "e", "f"}

\* a table whose entry for 3.0.0 was pasted in upper case
commitAtUpperCase(i) ==
    IF AllVersionCommits[i][1] = "3.0.0"
    THEN "C90EC746A7E77EF5B108554BE2133DFD1E1AB1B2"
    ELSE AllVersionCommits[i][2]

\* the commit of the i-th entry of the versionCommits literal
commitAt(i) == AllVersionCommits[i][2]

versionAt(i) == AllVersionCommits[i][1]

expectedVersions == {"3.6.2", "3.6.1", "3.6.0", "3.5.3", "3.0.0"}

TableInit ==
    /\ SessionIdle /\ JsonIdle /\ ConfIdle /\ MaskIdle
    /\ tvPc = "known"
    /\ tvIndex = 1
    /\ tvChar = 0
    /\ tvErrors = {}

\* t.Errorf
Report(version, kind) == {[version |-> version, kind |-> kind]}

\* the len check and the loop over expectedVersions
TestVersionCommitsKnown ==
    LET n == Len(AllVersionCommits)
        exists(v) == \E i \in 1..n : versionAt(i) = v
        commit(v) == commitAt(CHOOSE i \in 1..n : versionAt(i) = v)
    IN  /\ tvPc = "known"
        /\ tvErrors' =
              tvErrors
              \cup (IF n = 0 THEN Report("", "versionCommits should not be empty") ELSE {})
              \cup UNION {IF ~exists(v)
                          THEN Report(v, "should exist")
                          ELSE IF commit(v) = ""
                               THEN Report(v, "should not be empty")
                               ELSE {} : v \in expectedVersions}
        /\ tvPc' = IF n = 0 THEN "done" ELSE "range"
        /\ UNCHANGED <<tvIndex, tvChar>>
        /\ UNCHANGED <<vars, jsonVars, confVars, maskVars>>

\* the outer range goes on to its next entry, or ends
NextEntry ==
    /\ tvIndex' = tvIndex + 1
    /\ tvChar' = 0
    /\ tvPc' = IF tvIndex = Len(AllVersionCommits) THEN "done" ELSE "range"

\* if len(commit) != 40
TestVersionCommitsLen ==
    LET commit == commitAt(tvIndex)
    IN  /\ tvPc = "range"
        /\ tvChar = 0
        /\ tvErrors' = tvErrors \cup (IF Len(commit) # 40
                                      THEN Report(versionAt(tvIndex), "should be 40 characters")
                                      ELSE {})
        /\ IF commit = ""
           THEN NextEntry
           ELSE tvChar' = 1 /\ UNCHANGED <<tvPc, tvIndex>>
        /\ UNCHANGED <<vars, jsonVars, confVars, maskVars>>

\* one iteration of the range over the characters, with its break
TestVersionCommitsChar ==
    LET chars == Chars(commitAt(tvIndex))
        invalid == ~IsLowerHex(chars[tvChar])
    IN  /\ tvPc = "range"
        /\ tvChar >= 1
        /\ tvErrors' = tvErrors \cup (IF invalid
                                      THEN Report(versionAt(tvIndex), "invalid hex character")
                                      ELSE {})
        /\ IF invalid \/ tvChar = Len(chars)
           THEN NextEntry
           ELSE tvChar' = tvChar + 1 /\ UNCHANGED <<tvPc, tvIndex>>
        /\ UNCHANGED <<vars, jsonVars, confVars, maskVars>>

TableNext == TestVersionCommitsKnown \/ TestVersionCommitsLen \/ TestVersionCommitsChar

SpecTable == TableInit /\ [][TableNext]_<<vars, toolVars>>

\* C12: every entry of the version table has a non-empty fingerprint of
\* exactly 40 characters, each a lowercase hexadecimal digit: the scan of the
\* table never reports an entry, and once it is over every entry has a commit
\* of length 40 spelt in 0-9 and a-f only.
C12_FingerprintsAreHex ==
    /\ tvErrors = {}
    /\ tvPc = "done" =>
          \A i \in 1..Len(AllVersionCommits) :
              /\ commitAt(i) # ""
              /\ Len(commitAt(i)) = 40
              /\ Len(Chars(commitAt(i))) = 40
              /\ \A k \in 1..40 : IsLowerHex(Chars(commitAt(i))[k])

C12_Witness ==
    /\ tvPc = "done"
    /\ tvIndex = Len(AllVersionCommits) + 1
    /\ Len(AllVersionCommits) = 17

(***************************************************************************)
(* tg conf add / tg conf delete on the viper configuration.  Standard      *)
(* input is a sequence of lines; reader.ReadString gives the next one, or  *)
(* the empty text at end of input.  A text is the sequence of its words    *)
(* and white space, an alias or a field value is the string they spell.    *)
(***************************************************************************)
\* reader.ReadString('\n') for the k-th read of the call
Line(stdin, k) == IF k <= Len(stdin) THEN stdin[k] ELSE <<>>

\* strings.TrimSpace of a line, as a string
Answer(line) == Join(TrimSpace(line))

Ln(word) == <<word, "\n">>

\* the flags of `tg conf add`: the values of the tests, and the defaults of the command
AddFlagSets ==
    {[alias |-> al, user |-> "testuser", password |-> "testpass", host |-> "http://testhost",
      gsPort |-> "14240", restPort |-> "9000", default |-> "n"] : al \in {"", "dev", "prod"}}
    \cup
    {[alias |-> "dev", user |-> "testuser", password |-> "testpass",
      host |-> "http://testhost", gsPort |-> "14240", restPort |-> "9000", default |-> "y"],
     [alias |-> "", user |-> "tigergraph", password |-> "tigergraph",
      host |-> "http://127.0.0.1", gsPort |-> "14240", restPort |-> "9000", default |-> "n"]}

AddStdins ==
    {<<>>,
     <<<<" ", "\n">>>>,
     <<Ln("prod")>>,
     <<Ln("dev"), Ln("http://devhost"), <<"\n">>, Ln("15000"), <<"\n">>, Ln("Y")>>}

\* term.ReadPassword: the bytes typed, or an error when stdin is no terminal
PasswordsTyped == {[err |-> Nil, bytes |-> "secret"], [err |-> <<"inappropriate ioctl">>, bytes |-> ""]}

\* helpers.SaveConfig()
SaveErrors == {Nil, <<"permission denied">>}

DeleteAliases == {"", "dev", "prod", "staging"}

DeleteStdins ==
    {<<>>,
     <<Ln("dev")>>,
     <<<<"Y", "E", "S", "\n">>>>,
     <<<<" ", "prod", " ", "\n">>, Ln("y")>>}

\* what the user's configuration file holds when the command starts
StoredConfigs ==
    {[machines |-> NoMachines, default |-> ""],
     [machines |-> [a \in {"prod"} |->
                      [host |-> "https://prod.tgcloud.io", user |-> "admin",
                       password |-> "prodpass", gsPort |-> "14240", restPort |-> "9000"]],
      default |-> "prod"]}

ConfInit ==
    /\ SessionIdle /\ JsonIdle /\ TableIdle /\ MaskIdle
    /\ viperCfg \in StoredConfigs
    /\ confBefore = viperCfg
    /\ confCall = [op |-> "", alias |-> "", out |-> ""]
    /\ confHist = [start |-> viperCfg.default, asDefault |-> ""]

\* viper.Set("machines.<alias>", machineConfig)
SetMachine(ms, al, machineConfig) ==
    [a \in DOMAIN ms \cup {al} |-> IF a = al THEN machineConfig ELSE ms[a]]

\* delete(machines, alias)
DeleteMachine(ms, al) == [a \in DOMAIN ms \ {al} |-> ms[a]]

\* the prompts of RunConfAdd: the value asked for when the flag has its
\* default, the flag otherwise; n counts the lines read before this prompt
Prompted(flag, dflt, stdin, n) ==
    IF flag = dflt /\ Answer(Line(stdin, n + 1)) # ""
    THEN Answer(Line(stdin, n + 1))
    ELSE flag

Reads(flag, dflt) == IF flag = dflt THEN 1 ELSE 0

\* the models.MachineConfig RunConfAdd builds after n0 lines were read
NewMachine(flags, stdin, typed, n0) ==
    LET n1 == n0 + Reads(flags.host, "http://127.0.0.1")
        n2 == n1 + Reads(flags.user, "tigergraph")
        n3 == n2 + Reads(flags.gsPort, "14240")
    IN  [host |-> Prompted(flags.host, "http://127.0.0.1", stdin, n0),
         user |-> Prompted(flags.user, "tigergraph", stdin, n1),
         password |-> IF flags.password = "tigergraph" /\ typed.err = Nil /\ typed.bytes # ""
                      THEN typed.bytes
                      ELSE flags.password,
         gsPort |-> Prompted(flags.gsPort, "14240", stdin, n2),
         restPort |-> Prompted(flags.restPort, "9000", stdin, n3)]

\* defaultFlag == "y" after the last prompt
WantsDefault(flags, stdin, n0) ==
    LET n == n0 + Reads(flags.host, "http://127.0.0.1") + Reads(flags.user, "tigergraph")
                + Reads(flags.gsPort, "14240") + Reads(flags.restPort, "9000")
    IN  \/ flags.default = "y"
        \/ flags.default = "n" /\ Answer(Line(stdin, n + 1)) \in {"y", "Y"}

\* RunConfAdd without the check for an existing alias
ConfAddOverwrites(cfg, flags, stdin, typed, saveErr) ==
    LET al == Prompted(flags.alias, "", stdin, 0)
        n0 == Reads(flags.alias, "")
    IN  IF al = ""
        THEN [cfg |-> cfg, alias |-> al, out |-> "Alias is required"]
        ELSE [cfg |-> [machines |-> SetMachine(cfg.machines, al,
                                               NewMachine(flags, stdin, typed, n0)),
                       default |-> IF WantsDefault(flags, stdin, n0)
                                   THEN al
                                   ELSE cfg.default],
              alias |-> al,
              out |-> IF saveErr # Nil THEN "Error saving config" ELSE "Saving alias: success"]

\* RunConfAdd: the configuration it leaves, the alias it settled on, its last message
ConfAdd(cfg, flags, stdin, typed, saveErr) ==
    LET al == Prompted(flags.alias, "", stdin, 0)
        n0 == Reads(flags.alias, "")
    IN  IF al = ""
        THEN [cfg |-> cfg, alias |-> al, out |-> "Alias is required"]
        ELSE IF al \in DOMAIN cfg.machines
             THEN [cfg |-> cfg, alias |-> al, out |-> "already exists"]
             ELSE [cfg |-> [machines |-> SetMachine(cfg.machines, al,
                                                    NewMachine(flags, stdin, typed, n0)),
                            default |-> IF WantsDefault(flags, stdin, n0)
                                        THEN al
                                        ELSE cfg.default],
                   alias |-> al,
                   out |-> IF saveErr # Nil
                           THEN "Error saving config"
                           ELSE "Saving alias: success"]

RunConfAdd(flags, stdin, typed, saveErr) ==
    LET r == ConfAdd(viperCfg, flags, stdin, typed, saveErr)
    IN  /\ viperCfg' = r.cfg
        /\ confBefore' = viperCfg
        /\ confCall' = [op |-> "add", alias |-> r.alias, out |-> r.out]
        /\ confHist' = IF /\ r.alias \notin DOMAIN viperCfg.machines
                          /\ r.alias \in DOMAIN r.cfg.machines
                          /\ WantsDefault(flags, stdin, Reads(flags.alias, ""))
                       THEN [confHist EXCEPT !.asDefault = r.alias]
                       ELSE confHist
        /\ UNCHANGED <<vars, jsonVars, tableVars, maskVars>>

\* RunConfDelete that resets the default alias whatever alias it deletes
ConfDeleteClearsDefault(cfg, flagAlias, stdin, swallowed, saveErr) ==
    LET asked == flagAlias = ""
        al == Prompted(flagAlias, "", stdin, 0)
        confirm == IF asked /\ swallowed THEN <<>> ELSE Line(stdin, Reads(flagAlias, "") + 1)
    IN  IF al = ""
        THEN [cfg |-> cfg, alias |-> al, out |-> "Alias is required"]
        ELSE IF al \notin DOMAIN cfg.machines
             THEN [cfg |-> cfg, alias |-> al, out |-> "Alias not found!"]
             ELSE IF cfg.default = al /\ Join(TrimSpace(ToLower(confirm))) \notin {"y", "yes"}
                  THEN [cfg |-> cfg, alias |-> al, out |-> "Aborting..."]
                  ELSE [cfg |-> [machines |-> DeleteMachine(cfg.machines, al),
                                 default |-> ""],
                        alias |-> al,
                        out |-> IF saveErr # Nil
                                THEN "Error saving config"
                                ELSE "Alias deleted!"]

\* RunConfDelete that leaves the default alias alone
ConfDeleteKeepsDefault(cfg, flagAlias, stdin, swallowed, saveErr) ==
    LET asked == flagAlias = ""
        al == Prompted(flagAlias, "", stdin, 0)
        confirm == IF asked /\ swallowed THEN <<>> ELSE Line(stdin, Reads(flagAlias, "") + 1)
    IN  IF al = ""
        THEN [cfg |-> cfg, alias |-> al, out |-> "Alias is required"]
        ELSE IF al \notin DOMAIN cfg.machines
             THEN [cfg |-> cfg, alias |-> al, out |-> "Alias not found!"]
             ELSE IF cfg.default = al /\ Join(TrimSpace(ToLower(confirm))) \notin {"y", "yes"}
                  THEN [cfg |-> cfg, alias |-> al, out |-> "Aborting..."]
                  ELSE [cfg |-> [machines |-> DeleteMachine(cfg.machines, al),
                                 default |-> cfg.default],
                        alias |-> al,
                        out |-> IF saveErr # Nil
                                THEN "Error saving config"
                                ELSE "Alias deleted!"]

\* RunConfDelete.  The confirmation is read through a second bufio.Reader on
\* os.Stdin: when the alias was read from stdin too, the first reader may
\* have taken the rest of the input into its buffer (swallowed), and the
\* second then reads the empty text.
ConfDelete(cfg, flagAlias, stdin, swallowed, saveErr) ==
    LET asked == flagAlias = ""
        al == Prompted(flagAlias, "", stdin, 0)
        confirm == IF asked /\ swallowed THEN <<>> ELSE Line(stdin, Reads(flagAlias, "") + 1)
    IN  IF al = ""
        THEN [cfg |-> cfg, alias |-> al, out |-> "Alias is required"]
        ELSE IF al \notin DOMAIN cfg.machines
             THEN [cfg |-> cfg, alias |-> al, out |-> "Alias not found!"]
             ELSE IF cfg.default = al /\ Join(TrimSpace(ToLower(confirm))) \notin {"y", "yes"}
                  THEN [cfg |-> cfg, alias |-> al, out |-> "Aborting..."]
                  ELSE [cfg |-> [machines |-> DeleteMachine(cfg.machines, al),
                                 default |-> IF cfg.default = al THEN "" ELSE cfg.default],
                        alias |-> al,
                        out |-> IF saveErr # Nil
                                THEN "Error saving config"
                                ELSE "Alias deleted!"]

RunConfDelete(flagAlias, stdin, swallowed, saveErr) ==
    LET r == ConfDelete(viperCfg, flagAlias, stdin, swallowed, saveErr)
    IN  /\ viperCfg' = r.cfg
        /\ confBefore' = viperCfg
        /\ confCall' = [op |-> "delete", alias |-> r.alias, out |-> r.out]
        /\ confHist' = IF /\ r.alias \in DOMAIN viperCfg.machines
                          /\ r.alias \notin DOMAIN r.cfg.machines
                          /\ r.alias = confHist.asDefault
                       THEN [confHist EXCEPT !.asDefault = ""]
                       ELSE confHist
        /\ UNCHANGED <<vars, jsonVars, tableVars, maskVars>>

ConfNext ==
    \/ \E flags \in AddFlagSets, stdin \in AddStdins, typed \in PasswordsTyped,
          saveErr \in SaveErrors : RunConfAdd(flags, stdin, typed, saveErr)
    \/ \E flagAlias \in DeleteAliases, stdin \in DeleteStdins, swallowed \in BOOLEAN,
          saveErr \in SaveErrors : RunConfDelete(flagAlias, stdin, swallowed, saveErr)

SpecConf == ConfInit /\ [][ConfNext]_<<vars, toolVars>>

\* C13: RunConfAdd with an empty alias (none given by flag nor typed at the
\* prompt) or with an alias that is already a key of the machines map leaves
\* the machines map and the default alias as they were before the call.
C13_AddRejectedChangesNothing ==
    (/\ confCall.op = "add"
     /\ confCall.alias = "" \/ confCall.alias \in DOMAIN confBefore.machines)
    => /\ viperCfg.machines = confBefore.machines
       /\ viperCfg.default = confBefore.default

C13_Witness ==
    /\ confCall.op = "add"
    /\ confCall.alias = "prod"
    /\ confCall.out = "already exists"
    /\ "prod" \in DOMAIN confBefore.machines
    /\ confBefore.default = "dev"

\* C14: RunConfDelete of an alias that exists and is not the default removes
\* that key and no other from the machines map, leaves every other machine
\* and the default alias as they were; with an empty alias or one that is
\* not a key of the machines map it leaves the configuration as it was.
C14_DeleteFrame ==
    confCall.op = "delete" =>
        LET al == confCall.alias
        IN  /\ (al \in DOMAIN confBefore.machines /\ al # confBefore.default) =>
                  /\ DOMAIN viperCfg.machines = DOMAIN confBefore.machines \ {al}
                  /\ \A a \in DOMAIN viperCfg.machines :
                        viperCfg.machines[a] = confBefore.machines[a]
                  /\ viperCfg.default = confBefore.default
            /\ (al = "" \/ al \notin DOMAIN confBefore.machines) => viperCfg = confBefore

C14_Witness ==
    /\ confCall.op = "delete"
    /\ confCall.alias = "dev"
    /\ confBefore.default = "prod"
    /\ DOMAIN confBefore.machines = {"dev", "prod"}
    /\ DOMAIN viperCfg.machines = {"prod"}
    /\ viperCfg.default = "prod"

(***************************************************************************)
(* maskPassword, applied to every password of at most MaxPasswordLen bytes *)
(* over a small alphabet.  A string is the sequence of its bytes.          *)
(***************************************************************************)
MaxPasswordLen == 5

PasswordBytes == {"p", "3", "*"}

Passwords == UNION {[1..n -> PasswordBytes] : n \in 0..MaxPasswordLen}

\* strings.Repeat(t, n)
Repeat(t, n) == [i \in 1..n |-> t]

\* maskPassword that masks in full only below three bytes
maskPasswordBelowThree(pw) ==
    IF pw = <<>>
    THEN <<>>
    ELSE IF Len(pw) < 3
         THEN Repeat("*", Len(pw))
         ELSE SubSeq(pw, 1, 1) \o Repeat("*", Len(pw) - 2) \o SubSeq(pw, Len(pw), Len(pw))

maskPassword(pw) ==
    IF pw = <<>>
    THEN <<>>
    ELSE IF Len(pw) <= 3
         THEN Repeat("*", Len(pw))
         ELSE SubSeq(pw, 1, 1) \o Repeat("*", Len(pw) - 2) \o SubSeq(pw, Len(pw), Len(pw))

MaskInit ==
    /\ SessionIdle /\ JsonIdle /\ TableIdle /\ ConfIdle
    /\ maskPc = "call"
    /\ password \in Passwords
    /\ masked = <<>>

MaskPasswordCall ==
    /\ maskPc = "call"
    /\ masked' = maskPassword(password)
    /\ maskPc' = "return"
    /\ UNCHANGED <<password, vars, jsonVars, tableVars, confVars>>

MaskNext == MaskPasswordCall

SpecMask == MaskInit /\ [][MaskNext]_<<vars, toolVars>>

\* C15: maskPassword returns a string as long as its input: empty for the
\* empty input, all '*' for 1 to 3 characters, and for a longer input the
\* first and the last character as they are with '*' in every place between.
C15_MaskShape ==
    maskPc = "return" =>
        LET n == Len(password)
        IN  /\ Len(masked) = n
            /\ n = 0 => masked = <<>>
            /\ n \in 1..3 => \A i \in 1..n : masked[i] = "*"
            /\ n > 3 => /\ masked[1] = password[1]
                        /\ masked[n] = password[n]
                        /\ \A i \in 2..(n - 1) : masked[i] = "*"

C15_Witness ==
    /\ maskPc = "return"
    /\ password = <<"p", "3", "3", "p", "3">>
    /\ masked = <<"p", "*", "*", "*", "3">>

(***************************************************************************)
(* Properties of login() and executeCommand, checked under Spec.           *)
(***************************************************************************)
\* C16: after a login() that fails, Session.Version and Session.Cookie hold
\* the values they had when login() was called (the empty version and the
\* zero cookie RunGSQL built the session with).
C16_FailedLoginLeavesSession ==
    (pc = "loginRet" /\ loginErr # Nil)
        => /\ session.Version = ""
           /\ session.Cookie = ZeroCookie

\* the last answer login() received
LastResponse == responses[Len(responses)]

\* C17: when the accepted answer carries a cookie artifact in Set-Cookie, the
\* session cookie after login() is that artifact with the provenance flags
\* re-asserted as executeCommand re-asserts them: fromGsqlClient and
\* fromGsqlServer true, fromGraphStudio false, gShellTest true.
C17_LoginCookieFlagsReasserted ==
    (/\ pc = "loginRet"
     /\ loginErr = Nil
     /\ LastResponse.setCookie # <<>>
     /\ UnmarshalCookie(LastResponse.setCookie).err = Nil)
        => session.Cookie = UpdatedCookie(UnmarshalCookie(LastResponse.setCookie).val)

\* C18: when a read of the response body ended executeCommand's loop, it
\* returns nil only if that read failed with EOF; any other read error is
\* what it returns.
C18_ReadErrorIsReturned ==
    (pc = "execRet" /\ readErr # Nil) =>
        /\ readErr # Errorf("EOF") => execErr = readErr
        /\ execErr = Nil => readErr = Errorf("EOF")

\* the answer arrived but its body is not JSON
IsMalformed(resp) == resp.err = Nil /\ Decoded(resp).err # Nil

\* C19: the error of a failed login() tells the kind of failure: it is the
\* "unable to establish compatible connection" of an exhausted table only
\* when every answer was isClientCompatible=false, and it is the server's
\* message when an answer rejected the credentials of a non-reserved user.
C19_LoginFailuresDistinguished ==
    (pc = "loginRet" /\ loginErr # Nil) =>
        /\ loginErr = Errorf("unable to establish compatible connection")
              => \A i \in 1..Len(responses) : IsIncompatible(responses[i])
        /\ \A i \in 1..Len(responses) :
              (IsCredentialRejection(responses[i]) /\ session.User # "__GSQL__secret")
                  => loginErr = Errorf(Decoded(responses[i]).val.message)

\* C20: an answer whose body is not JSON fails its own attempt only: unless it
\* answered the last table entry, login() is still in its loop or has sent
\* the request for another entry, and when the answer to that next request
\* is an acceptance login() has returned nil with that entry's version.
C20_MalformedFailsOnlyItsAttempt ==
    \A i \in 1..Len(responses) :
        IsMalformed(responses[i]) =>
            /\ i < Len(versionCommits) =>
                  \/ pc = "login" /\ Len(responses) = i
                  \/ Len(responses) > i /\ attempts[i + 1].version # attempts[i].version
            /\ (Len(responses) > i /\ IsAccepted(responses[i + 1])) =>
                  /\ pc = "loginRet"
                  /\ loginErr = Nil
                  /\ session.Version = attempts[i + 1].version

\* C20 witness: a malformed first answer, then the second entry is accepted
C20_Witness ==
    /\ pc = "loginRet"
    /\ Len(responses) = 2
    /\ IsMalformed(responses[1])
    /\ IsAccepted(responses[2])
    /\ loginErr = Nil
    /\ session.Version = attempts[2].version

\* C21: for the user __GSQL__secret an answer with isClientCompatible=true and
\* error=true is an acceptance: login() has returned nil on that attempt,
\* Session.Version is that attempt's version and no further request was sent.
C21_ReservedAccountAccepted ==
    \A i \in 1..Len(responses) :
        (IsCredentialRejection(responses[i]) /\ session.User = "__GSQL__secret")
            => /\ pc = "loginRet"
               /\ loginErr = Nil
               /\ Len(attempts) = i
               /\ Len(responses) = i
               /\ session.Version = attempts[i].version

\* C21 witness: the reserved account, refused once, then answered error=true
C21_Witness ==
    /\ pc = "loginRet"
    /\ session.User = "__GSQL__secret"
    /\ Len(responses) = 2
    /\ IsIncompatible(responses[1])
    /\ IsCredentialRejection(responses[2])
    /\ loginErr = Nil
    /\ session.Version = attempts[2].version

\* the provenance flags login() seeds a cookie with
InitialFlags(c) ==
    /\ c.fromGsqlClient = FALSE
    /\ c.fromGraphStudio = FALSE
    /\ c.gShellTest = TRUE
    /\ c.fromGsqlServer = FALSE

\* RunGSQL has built the session
SessionExists == session.Host # ""

\* login() has not seeded a cookie yet
BeforeFirstAttempt == pc = "login" /\ tried = {}

\* the version, if any, is a label of the table; at the return of a
\* successful login() it is the version of the accepted, last, attempt
Established ==
    /\ session.Version \in Versions
    /\ pc \notin {"login"}
    /\ pc = "loginRet" =>
          /\ loginErr = Nil
          /\ session.Version = attempts[Len(attempts)].version

\* Session.Version, once set, is never assigned another value
VersionKept == session.Version # "" => session'.Version = session.Version

\* a command is sent only on an established session
CommandsNeedVersion == pc \in {"prompt", "reading", "execRet"} => session.Version \in Versions

RunGSQLFlow ==
    /\ (pc = "start" /\ pc' = "exit") => (attempts' = <<>> /\ req' = <<>> /\ ~SessionExists')
    /\ (pc' = "login") => (pc \in {"start", "login"})
    /\ (pc = "loginRet" /\ loginErr # Nil) => (pc' = "exit")
    /\ pc # "exit"

\* C23: a command request exists only on a session whose login() succeeded;
\* login() is entered once, from the start of RunGSQL, and never again; when
\* the alias lookup fails RunGSQL ends with no negotiation and no command
\* request sent; when login() fails RunGSQL ends without starting the
\* interactive loop; and nothing happens after RunGSQL has ended.
C23_LoginOnceThenCommands ==
    /\ [](req # <<>> => session.Version \in Versions)
    /\ []((pc = "exit" /\ ~SessionExists) => (attempts = <<>> /\ req = <<>>))
    /\ [][RunGSQLFlow]_vars

\* C23 witness: login() failed and RunGSQL ended without a command request
C23_Witness ==
    /\ pc = "exit"
    /\ SessionExists
    /\ session.Version = ""
    /\ req = <<>>

\* the step is a Read that returned bytes
ReadsChunk == pc = "reading" /\ pos' # pos

\* how the session cookie gets from one request to the next: a request
\* carries the serialization of the cookie the session holds when it is
\* sent; a read with a decodable cookie update stores that artifact (flags
\* re-asserted); no other step from the return of login() on changes it
CookieCarried ==
    /\ (req = <<>> /\ req' # <<>>) =>
          (req'[1].Cookie = MarshalCookie(session.Cookie) /\ session'.Cookie = session.Cookie)
    /\ (pc \in {"loginRet", "prompt", "execRet"}) => (session'.Cookie = session.Cookie)
    /\ (pc = "reading") =>
          (session'.Cookie =
              IF ReadsChunk /\ IsCookieUpdate(data') /\ ValidPayload(data')
              THEN UpdatedCookie(UnmarshalCookie(PayloadOf(data')).val)
              ELSE session.Cookie)

\* C24: the Cookie header of every command request serializes the session's
\* current cookie artifact, which is the one the accepted negotiation answer
\* left or the one of the most recent cookie-update chunk, whichever is
\* later: an artifact received during one command goes out with the next.
C24_CookieCarriedForward == [][CookieCarried]_vars

\* C24 witness: a request carrying the artifact an earlier command received
C24_Witness ==
    /\ pc = "reading"
    /\ req # <<>>
    /\ CookieAtSend.clientCommit = "updated123"
    /\ CookieAtSend.fromGsqlClient
    /\ session.Cookie = CookieAtSend

\* the value the payload's JSON text gives a string field: that of its last
\* member with this key, the empty string when it has none
PayloadString(toks, f) ==
    LET ms == Members(toks)
        at == {i \in 1..Len(ms) : ms[i][1] = f /\ IsStringTok(ms[i][2])}
    IN  IF at = {}
        THEN ""
        ELSE Unquote(ms[CHOOSE i \in at : \A j \in at : j <= i][2])

\* C25: after a cookie update with a valid payload, clientCommit and the two
\* affinity tokens of Session.Cookie are the payload's values, empty where the
\* payload has none, whatever the cookie held before; the four provenance
\* flags are the client's own.
C25_WholesaleReplace ==
    (data # <<>> /\ IsCookieUpdate(data) /\ ValidPayload(data))
        => /\ \A f \in CookieStringFields :
                 session.Cookie[f] = PayloadString(PayloadOf(data), f)
           /\ DOMAIN session.Cookie = CookieStringFields \cup CookieBoolFields
           /\ session.Cookie.fromGsqlClient /\ session.Cookie.fromGsqlServer
           /\ ~session.Cookie.fromGraphStudio /\ session.Cookie.gShellTest

\* C25 witness: the cookie sent had an affinity token, the payload has none
C25_Witness ==
    /\ data # <<>>
    /\ IsCookieUpdate(data)
    /\ ValidPayload(data)
    /\ CookieAtSend.ApplicationGatewayAffinity = "gw1"
    /\ CookieAtSend.clientCommit = "srv456"
    /\ PayloadString(PayloadOf(data), "ApplicationGatewayAffinity") = ""
    /\ session.Cookie.ApplicationGatewayAffinity = ""
    /\ session.Cookie.clientCommit = "updated123"

\* the cookie artifacts a reading of the first n writes of the body can have
\* stored: those of the runs of consecutive writes that, read as one chunk,
\* are a cookie update with a valid payload
ArtifactsIn(n) ==
    {UpdatedCookie(UnmarshalCookie(PayloadOf(Concat(SubSeq(body, i, j)))).val) :
        <<i, j>> \in {ij \in (1..n) \X (1..n) :
                        /\ ij[1] <= ij[2]
                        /\ IsCookieUpdate(Concat(SubSeq(body, ij[1], ij[2])))
                        /\ ValidPayload(Concat(SubSeq(body, ij[1], ij[2])))}}

\* the read that ended the command failed, and not with EOF
ReadFailed == pc = "execRet" /\ readErr \notin {Nil, Errorf("EOF")}

\* the steps after login(): none changes endpoint, user, secret or version;
\* the return of a command changes nothing of the session and leads back to
\* the prompt; a line that is a command is sent with the session's cookie
SessionReusable ==
    /\ (pc \in {"prompt", "reading", "execRet"}) =>
          /\ session'.Host = session.Host
          /\ session'.User = session.User
          /\ session'.Password = session.Password
          /\ session'.Version = session.Version
    /\ (pc = "execRet") => (pc' = "prompt" /\ session' = session)
    /\ (/\ pc = "prompt"
        /\ input'.err = Nil
        /\ ~IsQuit(TrimSpace(input'.line))
        /\ TrimSpace(input'.line) # <<>>) =>
          req' = <<[command |-> TrimSpace(input'.line),
                    Cookie |-> MarshalCookie(session.Cookie)]>>

\* C26: when a read failure other than EOF ended executeCommand, the session
\* still has its version, its cookie is the one the request was sent with or
\* an artifact fully read before the failure, the loop goes back to the
\* prompt with the session untouched, and the next command line is sent.
C26_ReusableAfterReadFailure ==
    /\ [](ReadFailed =>
            /\ session.Version \in Versions
            /\ session.Cookie \in {CookieAtSend} \cup ArtifactsIn(pos - 1))
    /\ [][SessionReusable]_vars

\* C26 witness: the read failed after a cookie update had been stored
C26_Witness ==
    /\ ReadFailed
    /\ session.Cookie.clientCommit = "updated123"
    /\ CookieAtSend.clientCommit # "updated123"
    /\ session.Cookie \in ArtifactsIn(pos - 1)

\* a read whose chunk holds the control separator prints nothing, and unless
\* the chunk holds the cookie sub-marker too it leaves the session as it was
ControlChunkWithheld ==
    (ReadsChunk /\ Contains(data', GSQL_SEPARATOR)) =>
        /\ printed' = <<>>
        /\ out' = out
        /\ ~Contains(data', GSQL_COOKIES) => session' = session

\* C27: a chunk that contains the control separator is withheld from the
\* output in full, ordinary text or a progress indicator in the same chunk
\* included; without the cookie sub-marker it changes no session state.
C27_ControlChunkWithheld == [][ControlChunkWithheld]_vars

\* C27 witness: a progress indicator sharing its chunk with a return-code marker
C27_Witness ==
    /\ data # <<>>
    /\ Contains(data, GSQL_SEPARATOR)
    /\ ~Contains(data, GSQL_COOKIES)
    /\ progressRegex(data)
    /\ printed = <<>>
    /\ out = <<>>
    /\ session.Cookie = CookieAtSend

\* a read whose chunk is a cookie update without a decodable payload leaves
\* the session as it was, sets no error and, unless the read itself
\* failed, is followed by the next read
BadCookieChunkIgnored ==
    (ReadsChunk /\ IsCookieUpdate(data') /\ ~ValidPayload(data')) =>
        /\ session' = session
        /\ execErr' = Nil
        /\ readErr' = Nil => pc' = "reading"

\* C28: a cookie-update chunk whose payload after "__," is missing or is not
\* valid JSON leaves Session.Cookie as it was, raises no error and does not
\* stop the reading of the chunks that follow.
C28_BadCookieChunkIgnored == [][BadCookieChunkIgnored]_vars

\* C28 witness: an update with nothing after "__,", with more of the body to read
C28_Witness ==
    /\ pc = "reading"
    /\ data # <<>>
    /\ IsCookieUpdate(data)
    /\ HasPayload(data)
    /\ ~ValidPayload(data)
    /\ pos <= Len(body)
    /\ session.Cookie = CookieAtSend

\* the interactive loop is left only from the prompt, on a line that trimmed
\* is Quit, quit or exit; a failed read of the line prints the error, sends
\* nothing, changes nothing and leads back to the prompt
LoopEndsOnlyOnQuit ==
    /\ (pc \in {"prompt", "reading", "execRet"} /\ pc' = "exit") =>
          (pc = "prompt" /\ input'.err = Nil /\ IsQuit(TrimSpace(input'.line)))
    /\ (pc = "prompt" /\ input'.err # Nil) =>
          /\ pc' = "prompt"
          /\ notice' = <<"Error reading input: " \o input'.err[1]>>
          /\ UNCHANGED <<session, loginVars, execVars>>

\* C29: the interactive loop ends only through a quit or exit command: when
\* reading the line fails, end of input included, no command is sent, the
\* error is printed and the loop is at its prompt again, so that with the
\* input at end-of-file for good every iteration is such a step and the loop
\* never ends.
C29_LoopEndsOnlyOnQuit == [][LoopEndsOnlyOnQuit]_vars

\* C29 witness: the line read was end of input, and the loop prompts again
C29_Witness ==
    /\ pc = "prompt"
    /\ input.err = Errorf("EOF")
    /\ notice = <<"Error reading input: EOF">>
    /\ req = <<>>
    /\ session.Version \in Versions

\* C30: from a configuration whose default alias is empty, after any calls of
\* RunConfAdd and RunConfDelete the default alias is empty or a key of the
\* machines map, and it is the alias of the most recent add that stored its
\* machine with default=y, unless that alias was deleted since.
C30_DefaultIsLastDefaultAdd ==
    confHist.start = "" =>
        /\ viperCfg.default \in {""} \cup DOMAIN viperCfg.machines
        /\ confHist.asDefault # "" => viperCfg.default = confHist.asDefault

\* C30 witness: prod added, dev added as default, prod deleted
C30_Witness ==
    /\ confHist = [start |-> "", asDefault |-> "dev"]
    /\ confCall.op = "delete"
    /\ confCall.alias = "prod"
    /\ DOMAIN confBefore.machines = {"dev", "prod"}
    /\ DOMAIN viperCfg.machines = {"dev"}
    /\ viperCfg.default = "dev"

====
